---- MODULE Spec2Model ----
(***************************************************************************)
(* Model of lib/deploy/stepFunctions/compileStateMachines.js: the          *)
(* compilation of the service's state machine definitions into             *)
(* AWS::StepFunctions::StateMachine resources.                             *)
(*                                                                         *)
(* Text is modelled at the character level: a JavaScript string is a       *)
(* sequence of one-character strings.  Four characters that cannot be      *)
(* written conveniently are named: "LF" (line feed), "CR" (carriage        *)
(* return), "BS" (backslash) and "QT" (double quote).                      *)
(*                                                                         *)
(* A JSON value (a node of a definition) is one of                         *)
(*   [t |-> "str", s |-> chars]      a string                              *)
(*   [t |-> "null"]                  null                                  *)
(*   [t |-> "arr", a |-> nodes]      an array                              *)
(*   [t |-> "map", m |-> entries]    an object, entries [k, v] in          *)
(*                                   insertion order                       *)
(***************************************************************************)
EXTENDS Integers, Sequences, FiniteSets, TLC

VARIABLES service, template, pos, thrown, run, emitted

vars == <<service, template, pos, thrown, run, emitted>>

----------------------------------------------------------------------------
(* Bounds of the model *)

MaxDepth == 4
WideDepth == 1
MaxStrLen == 2
PoolSize == 2
MaxDefs == 2
MaxRuns == 2

----------------------------------------------------------------------------
(* Characters and values *)

LF == "LF"
CR == "CR"
BS == "BS"
QT == "QT"

NameLen == 10

Str(s) == [t |-> "str", s |-> s]
Null == [t |-> "null"]
Arr(a) == [t |-> "arr", a |-> a]
Map(m) == [t |-> "map", m |-> m]

KeyA == <<"A">>
KeyB == <<"B">>
KeyRef == <<"R", "e", "f">>
FnPrefix == <<"F", "n", ":", ":">>

(* the pool of randomName, as far as the model draws from it *)
PoolChars == <<"a", "b", "c", "d">>

TokenPool == { [i \in 1..NameLen |-> PoolChars[j]] : j \in 1..PoolSize }

----------------------------------------------------------------------------
(* utils/aws collaborators *)

StartsWith(s, p) == Len(s) >= Len(p) /\ SubSeq(s, 1, Len(p)) = p

isIntrinsic(obj) ==
  /\ obj.t = "map"
  /\ \E i \in 1..Len(obj.m) : obj.m[i].k = KeyRef \/ StartsWith(obj.m[i].k, FnPrefix)

translateLocalFunctionNames(value) == [canonical |-> value, version |-> FALSE]

convertToFunctionVersion(value) == [canonical |-> value.canonical, version |-> TRUE]

----------------------------------------------------------------------------
(* getIntrinsicFunctions: the result of draining the generator on obj.     *)
(* toks is the sequence of names randomName is going to return; the result *)
(* holds the mutated obj, the pairs yielded in order and the number of     *)
(* names consumed.                                                         *)

randomName(toks, n) == toks[(n % Len(toks)) + 1]

(* the marker written without its dollar sign *)
MarkerNoDollar(paramName) == <<"{">> \o paramName \o <<"}">>

Marker(paramName) == <<"$", "{">> \o paramName \o <<"}">>

Values(obj) ==
  IF obj.t = "map" THEN [i \in 1..Len(obj.m) |-> obj.m[i].v]
  ELSE IF obj.t = "arr" THEN obj.a
  ELSE <<>>

WithValues(obj, vals) ==
  IF obj.t = "map" THEN Map([i \in 1..Len(obj.m) |-> [k |-> obj.m[i].k, v |-> vals[i]]])
  ELSE IF obj.t = "arr" THEN Arr(vals)
  ELSE obj

RECURSIVE getIntrinsicFunctions(_, _, _)
RECURSIVE ForKeys(_, _, _, _)
RECURSIVE ForIdx(_, _, _, _)

(* lines 44-49: every element of the array value is handed to a recursive  *)
(* call as its obj; the element itself is never tested                     *)
ForIdx(value, idx, toks, n) ==
  IF idx > Len(value) THEN [vals |-> value, pairs |-> <<>>, n |-> n]
  ELSE LET inner == getIntrinsicFunctions(value[idx], toks, n)
           rest == ForIdx([value EXCEPT ![idx] = inner.obj], idx + 1, toks, inner.n)
       IN [vals |-> rest.vals, pairs |-> inner.pairs \o rest.pairs, n |-> rest.n]

(* the arguments of an intrinsic value are drained before it is replaced *)
VisitNested(value, toks, n) ==
  IF value.t = "arr"
    THEN LET r == ForIdx(value.a, 1, toks, n)
         IN [val |-> Arr(r.vals), pairs |-> r.pairs, n |-> r.n]
  ELSE IF isIntrinsic(value)
    THEN LET r == getIntrinsicFunctions(value, toks, n)
             paramName == randomName(toks, r.n)
         IN [val |-> Str(Marker(paramName)),
             pairs |-> r.pairs \o << <<paramName, r.obj>> >>,
             n |-> r.n + 1]
  ELSE IF value.t \in {"map", "null"}
    THEN LET r == getIntrinsicFunctions(value, toks, n)
         IN [val |-> r.obj, pairs |-> r.pairs, n |-> r.n]
  ELSE [val |-> value, pairs |-> <<>>, n |-> n]

(* lines 40-60: what one key of obj does with its value; val is the value  *)
(* of obj[key] afterwards                                                  *)
Visit(value, toks, n) ==
  IF value.t = "arr"
    THEN LET r == ForIdx(value.a, 1, toks, n)
         IN [val |-> Arr(r.vals), pairs |-> r.pairs, n |-> r.n]
  ELSE IF isIntrinsic(value)
    THEN LET paramName == randomName(toks, n)
         IN [val |-> Str(Marker(paramName)),
             pairs |-> << <<paramName, value>> >>,
             n |-> n + 1]
  ELSE IF value.t \in {"map", "null"}
    THEN LET r == getIntrinsicFunctions(value, toks, n)
         IN [val |-> r.obj, pairs |-> r.pairs, n |-> r.n]
  ELSE [val |-> value, pairs |-> <<>>, n |-> n]

(* lines 38-62: the loop over the own keys of obj, from the i-th on *)
ForKeys(vals, i, toks, n) ==
  IF i > Len(vals) THEN [vals |-> vals, pairs |-> <<>>, n |-> n]
  ELSE LET step == Visit(vals[i], toks, n)
           rest == ForKeys([vals EXCEPT ![i] = step.val], i + 1, toks, step.n)
       IN [vals |-> rest.vals, pairs |-> step.pairs \o rest.pairs, n |-> rest.n]

(* a string obj has its characters as own properties: each is a string,    *)
(* neither an array, nor intrinsic, nor an object; null has no properties  *)
getIntrinsicFunctions(obj, toks, n) ==
  LET r == ForKeys(Values(obj), 1, toks, n)
  IN [obj |-> WithValues(obj, r.vals), pairs |-> r.pairs, n |-> r.n]

----------------------------------------------------------------------------
(* JSON.stringify *)

Indent == 2

Spaces(k) == [i \in 1..k |-> " "]

EscapeChar(c) ==
  IF c = QT THEN <<BS, QT>>
  ELSE IF c = BS THEN <<BS, BS>>
  ELSE IF c = LF THEN <<BS, "n">>
  ELSE IF c = CR THEN <<BS, "r">>
  ELSE <<c>>

RECURSIVE Escape(_)
Escape(s) == IF s = <<>> THEN <<>> ELSE EscapeChar(Head(s)) \o Escape(Tail(s))

(* JSON.stringify of a string: the quoted, escaped literal *)
Quote(s) == <<QT>> \o Escape(s) \o <<QT>>

RECURSIVE Stringify(_, _)
RECURSIVE StringifyItems(_, _, _)

(* the members of a non-empty array or object from the i-th on, each on a  *)
(* line of its own *)
StringifyItems(node, i, ind) ==
  LET item == IF node.t = "map"
                THEN Quote(node.m[i].k) \o <<":", " ">> \o Stringify(node.m[i].v, ind)
                ELSE Stringify(node.a[i], ind)
      count == IF node.t = "map" THEN Len(node.m) ELSE Len(node.a)
  IN Spaces(ind) \o item
       \o (IF i < count THEN <<",", LF>> \o StringifyItems(node, i + 1, ind) ELSE <<>>)

(* JSON.stringify(node, undefined, 2) at indentation ind *)
Stringify(node, ind) ==
  IF node.t = "str" THEN Quote(node.s)
  ELSE IF node.t = "null" THEN <<"n", "u", "l", "l">>
  ELSE IF node.t = "arr"
    THEN IF node.a = <<>> THEN <<"[", "]">>
         ELSE <<"[", LF>> \o StringifyItems(node, 1, ind + Indent)
                \o <<LF>> \o Spaces(ind) \o <<"]">>
  ELSE IF node.m = <<>> THEN <<"{", "}">>
       ELSE <<"{", LF>> \o StringifyItems(node, 1, ind + Indent)
              \o <<LF>> \o Spaces(ind) \o <<"}">>

(* only a backslash followed by n is removed *)
RECURSIVE StripNewlineEscapes(_)
StripNewlineEscapes(s) ==
  IF s = <<>> THEN <<>>
  ELSE IF Len(s) >= 2 /\ s[1] = BS /\ s[2] = "n"
    THEN StripNewlineEscapes(SubSeq(s, 3, Len(s)))
  ELSE <<Head(s)>> \o StripNewlineEscapes(Tail(s))

(* .replace(/\\n|\\r|\\n\\r/g, ''): every backslash followed by n or r is  *)
(* removed with that letter, scanning from the left *)
RECURSIVE StripEscapes(_)
StripEscapes(s) ==
  IF s = <<>> THEN <<>>
  ELSE IF Len(s) >= 2 /\ s[1] = BS /\ s[2] \in {"n", "r"}
    THEN StripEscapes(SubSeq(s, 3, Len(s)))
  ELSE <<Head(s)>> \o StripEscapes(Tail(s))

----------------------------------------------------------------------------
(* lodash helpers *)

Undefined == [t |-> "undefined"]

(* a non-empty string whose characters the model does not look into *)
Id(x) == [t |-> "id", id |-> x]

Truthy(v) == v.t \notin {"undefined", "null"} /\ ~(v.t = "str" /\ v.s = <<>>)

(* _.fromPairs: a later pair of the same key overwrites the value of the   *)
(* property, which keeps its place *)
RECURSIVE fromPairs(_)
fromPairs(pairs) ==
  IF pairs = <<>> THEN <<>>
  ELSE LET init == fromPairs(SubSeq(pairs, 1, Len(pairs) - 1))
           last == pairs[Len(pairs)]
       IN IF \E i \in 1..Len(init) : init[i].k = last[1]
            THEN [i \in 1..Len(init) |->
                    IF init[i].k = last[1] THEN [k |-> last[1], v |-> last[2]] ELSE init[i]]
            ELSE Append(init, [k |-> last[1], v |-> last[2]])

(* _.mapValues(params, convertToFunctionVersion) *)
mapValues(params) ==
  [i \in 1..Len(params) |-> [k |-> params[i].k, v |-> convertToFunctionVersion(params[i].v)]]

isEmpty(seq) == seq = <<>>

----------------------------------------------------------------------------
(* toTags *)

RECURSIVE Digits(_)
Digits(k) ==
  LET d == <<"0", "1", "2", "3", "4", "5", "6", "7", "8", "9">>
  IN IF k < 10 THEN <<d[k + 1]>> ELSE Digits(k \div 10) \o <<d[(k % 10) + 1]>>

(* Value.toString() of a number or a string *)
toString(Value) == IF Value.t = "num" THEN Digits(Value.n) ELSE Value.s

toTags(obj) ==
  IF ~Truthy(obj) THEN <<>>
  ELSE [i \in 1..Len(obj.m) |-> [Key |-> obj.m[i].k, Value |-> toString(obj.m[i].v)]]

----------------------------------------------------------------------------
(* The collaborators of the host plugin *)

Names == <<"sm1", "sm2", "sm3">>

getAllStateMachines == [i \in 1..Len(service.stateMachines) |-> Names[i]]

getStateMachine(i) == service.stateMachines[i]

getStateMachineLogicalId(stateMachineName) == stateMachineName \o "StepFunctionsStateMachine"

getStateMachineOutputLogicalId(stateMachineName) == stateMachineName \o "StepFunctionsStateMachineArn"

(* the verdict of Joi.validate on the object, of aslValidator on its definition *)
JoiError(stateMachineObj) == stateMachineObj.joi = "error"

AslValid(stateMachineObj) == stateMachineObj.asl = "valid"

NoError == [t |-> "none"]

----------------------------------------------------------------------------
(* The body of the forEach callback, lines 69-190, for one state machine   *)

FnSub(text, params) == [t |-> "Fn::Sub", text |-> text, params |-> params]

(* line 107: the pairs with translateLocalFunctionNames on the references *)
Translated(functionMappings) ==
  [i \in 1..Len(functionMappings) |->
     <<functionMappings[i][1], translateLocalFunctionNames(functionMappings[i][2])>>]

(* lines 103-114: the DefinitionString of the drained definition and its text *)
Wrap(drained, definitionString) ==
  [definition |-> drained.obj, pairs |-> drained.pairs, n |-> drained.n,
   DefinitionString |->
     IF isEmpty(drained.pairs) THEN Str(definitionString)
     ELSE FnSub(definitionString, fromPairs(Translated(drained.pairs)))]

(* lines 101-114 *)
AssembleObject(drained) == Wrap(drained, Stringify(drained.obj, 0))

(* lines 96-115: the definition after the call and the DefinitionString *)
Assemble(definition, toks) ==
  IF definition.t = "str"
    THEN [definition |-> definition, pairs |-> <<>>, n |-> 0,
          DefinitionString |-> Str(StripEscapes(Quote(definition.s)))]
  ELSE AssembleObject(getIntrinsicFunctions(definition, toks, 0))

(* the versions are pinned whatever useExactVersion says *)
PinVersionsAlways(stateMachineObj, DefinitionString) ==
  IF DefinitionString.t = "Fn::Sub"
    THEN [DefinitionString |->
            FnSub(DefinitionString.text,
                  mapValues(DefinitionString.params)),
          calls |-> Len(DefinitionString.params)]
  ELSE [DefinitionString |-> DefinitionString, calls |-> 0]

(* lines 118-123 *)
PinVersions(stateMachineObj, DefinitionString) ==
  IF stateMachineObj.useExactVersion = TRUE /\ DefinitionString.t = "Fn::Sub"
    THEN [DefinitionString |->
            FnSub(DefinitionString.text,
                  mapValues(DefinitionString.params)),
          calls |-> Len(DefinitionString.params)]
  ELSE [DefinitionString |-> DefinitionString, calls |-> 0]

(* the role dependency is pushed whether or not a role is given *)
ResolveRoleAlwaysDepends(stateMachineObj) ==
  [RoleArn |-> IF Truthy(stateMachineObj.role) THEN stateMachineObj.role
               ELSE [GetAtt |-> <<"IamRoleStateMachineExecution", "Arn">>],
   DependsOn |-> <<"IamRoleStateMachineExecution">>]

(* lines 125-135 *)
ResolveRole(stateMachineObj) ==
  IF Truthy(stateMachineObj.role)
    THEN [RoleArn |-> stateMachineObj.role, DependsOn |-> <<>>]
  ELSE [RoleArn |-> [GetAtt |-> <<"IamRoleStateMachineExecution", "Arn">>],
        DependsOn |-> <<"IamRoleStateMachineExecution">>]

(* lines 137-145 *)
ResolveDependsOn(stateMachineObj, DependsOn) ==
  IF Truthy(stateMachineObj.dependsOn)
    THEN IF stateMachineObj.dependsOn.t = "arr"
           THEN DependsOn \o stateMachineObj.dependsOn.a
         ELSE Append(DependsOn, stateMachineObj.dependsOn.id)
  ELSE DependsOn

(* the tags of the state machine come before those of the provider *)
ResolveTagsOwnFirst(providerTags, stateMachineObj) ==
  IF Truthy(stateMachineObj.tags)
    THEN toTags(stateMachineObj.tags) \o toTags(providerTags)
  ELSE toTags(providerTags)

(* lines 73 and 147-150 *)
ResolveTags(providerTags, stateMachineObj) ==
  IF Truthy(stateMachineObj.tags)
    THEN toTags(providerTags) \o toTags(stateMachineObj.tags)
  ELSE toTags(providerTags)

(* lines 156-173 *)
stateMachineTemplate(stateMachineObj, DefinitionString, RoleArn, Tags, DependsOn) ==
  [Type |-> "AWS::StepFunctions::StateMachine",
   Properties |-> [DefinitionString |-> DefinitionString,
                   RoleArn |-> RoleArn,
                   Tags |-> Tags,
                   StateMachineName |-> IF Truthy(stateMachineObj.name)
                                          THEN stateMachineObj.name ELSE Undefined],
   DependsOn |-> DependsOn]

stateMachineOutPutObject(stateMachineLogicalId) ==
  [Description |-> "Current StateMachine Arn", Value |-> [Ref |-> stateMachineLogicalId]]

(* lines 118-173, after the DefinitionString has been assembled *)
Build(stateMachineObj, providerTags, assembled) ==
  LET pinned == PinVersions(stateMachineObj, assembled.DefinitionString)
      role == ResolveRole(stateMachineObj)
  IN [definition |-> assembled.definition,
      functionMappings |-> assembled.pairs,
      drawn |-> assembled.n,
      assembled |-> assembled.DefinitionString,
      pinCalls |-> pinned.calls,
      resource |-> stateMachineTemplate(stateMachineObj, pinned.DefinitionString,
                                        role.RoleArn,
                                        ResolveTags(providerTags, stateMachineObj),
                                        ResolveDependsOn(stateMachineObj, role.DependsOn))]

Compile(stateMachineObj, providerTags, toks) ==
  Build(stateMachineObj, providerTags,
        IF Truthy(stateMachineObj.definition)
          THEN Assemble(stateMachineObj.definition, toks)
        ELSE [definition |-> stateMachineObj.definition, pairs |-> <<>>,
              n |-> 0, DefinitionString |-> Undefined])

----------------------------------------------------------------------------
(* _.merge of a one-entry object into Resources or Outputs *)

MergeSeq(old, new) ==
  [i \in 1..(IF Len(old) > Len(new) THEN Len(old) ELSE Len(new)) |->
     IF i <= Len(new) THEN new[i] ELSE old[i]]

MergeDefinitionString(old, new) ==
  IF old.t = "Fn::Sub" /\ new.t = "Fn::Sub"
    THEN FnSub(new.text,
               fromPairs([i \in 1..(Len(old.params) + Len(new.params)) |->
                            IF i <= Len(old.params)
                              THEN <<old.params[i].k, old.params[i].v>>
                            ELSE <<new.params[i - Len(old.params)].k,
                                   new.params[i - Len(old.params)].v>>]))
  ELSE new

MergeResource(old, new) ==
  [Type |-> new.Type,
   Properties |->
     [DefinitionString |-> IF new.Properties.DefinitionString = Undefined
                             THEN old.Properties.DefinitionString
                           ELSE MergeDefinitionString(old.Properties.DefinitionString,
                                                      new.Properties.DefinitionString),
      RoleArn |-> new.Properties.RoleArn,
      Tags |-> MergeSeq(old.Properties.Tags, new.Properties.Tags),
      StateMachineName |-> IF new.Properties.StateMachineName = Undefined
                             THEN old.Properties.StateMachineName
                           ELSE new.Properties.StateMachineName],
   DependsOn |-> MergeSeq(old.DependsOn, new.DependsOn)]

MergeOutput(old, new) == new

MergeEntry(old, new) ==
  IF "Type" \in DOMAIN new THEN MergeResource(old, new) ELSE MergeOutput(old, new)

merge(object, key, value) ==
  [x \in DOMAIN object \cup {key} |->
     IF x = key
       THEN IF key \in DOMAIN object THEN MergeEntry(object[key], value) ELSE value
     ELSE object[x]]

----------------------------------------------------------------------------
(* The inputs: the service the plugin is constructed with *)

Scalars == {Str(<<"s">>), Str(<<"$", "{", "u", "}">>), Null}

RECURSIVE Nodes(_)
Nodes(d) ==
  LET leaves == Scalars \cup {Arr(<<>>), Map(<<>>)}
  IN IF d = 0 THEN leaves
     ELSE LET sub == Nodes(d - 1)
          IN leaves \cup {Arr(<<x>>) : x \in sub}
                    \cup {Map(<<[k |-> key, v |-> x]>>) : key \in {KeyA, KeyRef}, x \in sub}

DeepDocs == {Map(<<[k |-> KeyA, v |-> x]>>) : x \in Nodes(MaxDepth)}

WideDocs == {Map(<<[k |-> KeyA, v |-> x], [k |-> KeyB, v |-> y]>>) :
               x \in Nodes(WideDepth), y \in Nodes(WideDepth)}

StrChars == {"a", "n", "r", LF, CR, BS, QT}

StrDefs == {Str(s) : s \in UNION {[1..k -> StrChars] : k \in 1..MaxStrLen}}

TinyDoc == Map(<<[k |-> KeyA, v |-> Map(<<[k |-> KeyRef, v |-> Str(<<"s">>)]>>)]>>)

TinyStr == Str(<<"a", LF>>)

StateMachine(definition) ==
  [definition |-> definition, role |-> Undefined, dependsOn |-> Undefined,
   tags |-> Undefined, name |-> Undefined, useExactVersion |-> FALSE,
   joi |-> "ok", asl |-> "valid"]

Service(providerTags, validate, stateMachines) ==
  [provider |-> [tags |-> providerTags], validate |-> validate,
   stateMachines |-> stateMachines]

SeqsUpTo(S, k) == UNION {[1..j -> S] : j \in 1..k}

(* one state machine, any definition *)
DefinitionServices ==
  {Service(Undefined, FALSE,
           <<[StateMachine(d) EXCEPT !.useExactVersion = u]>>) :
     d \in DeepDocs \cup WideDocs \cup StrDefs, u \in BOOLEAN}

Roles == {Undefined, Id("arn:aws:iam::1:role/custom")}

Dependencies == {Undefined, Id("X"), Arr(<<>>), Arr(<<"Y", "X">>), Arr(<<"X", "X">>)}

(* several state machines, any role and dependsOn *)
GraphServices ==
  {Service(Undefined, FALSE, sms) :
     sms \in SeqsUpTo({[StateMachine(TinyDoc) EXCEPT !.role = r, !.dependsOn = d] :
                         r \in Roles, d \in Dependencies}, MaxDefs)}

TagMaps ==
  {Undefined, Map(<<>>), Map(<<[k |-> "a", v |-> [t |-> "num", n |-> 12]]>>),
   Map(<<[k |-> "b", v |-> Str(<<"x">>)], [k |-> "a", v |-> [t |-> "num", n |-> 2]]>>)}

StateMachineNames == {Undefined, Id("custom")}

(* several state machines, any tags and name *)
TagServices ==
  {Service(p, FALSE, sms) :
     p \in TagMaps,
     sms \in SeqsUpTo({[StateMachine(TinyStr) EXCEPT !.tags = g, !.name = m] :
                         g \in TagMaps, m \in StateMachineNames}, MaxDefs)}

(* several state machines, any verdict of the validators *)
ValidatedServices ==
  {Service(Undefined, v, sms) :
     v \in BOOLEAN,
     sms \in SeqsUpTo({[StateMachine(d) EXCEPT !.joi = j, !.asl = a] :
                         d \in {TinyDoc, TinyStr}, j \in {"ok", "error"},
                         a \in {"valid", "invalid"}}, MaxDefs)}

Services == DefinitionServices \cup GraphServices \cup TagServices \cup ValidatedServices

----------------------------------------------------------------------------
(* The state machine *)

MaxDraws == 2

Init ==
  /\ service \in Services
  /\ template = [Resources |-> <<>>, Outputs |-> <<>>]
  /\ pos = 1
  /\ thrown = NoError
  /\ run = 1
  /\ emitted = <<>>

Running == thrown = NoError /\ pos <= Len(service.stateMachines)

(* the malformed state machine is skipped and the loop goes on *)
RejectMalformedAndGoOn ==
  /\ thrown = NoError /\ pos <= Len(service.stateMachines)
  /\ JoiError(getStateMachine(pos))
  /\ pos' = pos + 1
  /\ UNCHANGED <<service, template, thrown, run, emitted>>

(* lines 75-81 *)
RejectMalformed ==
  /\ Running
  /\ JoiError(getStateMachine(pos))
  /\ thrown' = [t |-> "error", kind |-> "malformed", name |-> getAllStateMachines[pos]]
  /\ UNCHANGED <<service, template, pos, run, emitted>>

Linted(stateMachineObj) == Truthy(stateMachineObj.definition) /\ service.validate

(* lines 83-95 *)
RejectInvalid ==
  /\ Running
  /\ ~JoiError(getStateMachine(pos))
  /\ Linted(getStateMachine(pos))
  /\ ~AslValid(getStateMachine(pos))
  /\ thrown' = [t |-> "error", kind |-> "invalid", name |-> getAllStateMachines[pos]]
  /\ UNCHANGED <<service, template, pos, run, emitted>>

(* lines 175-190 and the mutation of the definition by line 53: what the  *)
(* callback leaves behind, c being what it has computed                    *)
Commit(stateMachineName, stateMachineObj, toks, c) ==
  /\ service' = [service EXCEPT !.stateMachines[pos].definition = c.definition]
  /\ template' =
       [Resources |-> merge(template.Resources,
                            getStateMachineLogicalId(stateMachineName), c.resource),
        Outputs |-> merge(template.Outputs,
                          getStateMachineOutputLogicalId(stateMachineName),
                          stateMachineOutPutObject(
                            getStateMachineLogicalId(stateMachineName)))]
  /\ emitted' = Append(emitted,
       [run |-> run, name |-> stateMachineName, input |-> stateMachineObj,
        providerTags |-> service.provider.tags,
        names |-> SubSeq(toks, 1, c.drawn), compiled |-> c])

(* lines 69-192, no error thrown *)
CompileStateMachine ==
  /\ Running
  /\ ~JoiError(getStateMachine(pos))
  /\ Linted(getStateMachine(pos)) => AslValid(getStateMachine(pos))
  /\ \E toks \in [1..MaxDraws -> TokenPool] :
       Commit(getAllStateMachines[pos], getStateMachine(pos), toks,
              Compile(getStateMachine(pos), service.provider.tags, toks))
  /\ pos' = pos + 1
  /\ UNCHANGED <<thrown, run>>

(* compileStateMachines is called again on the same service *)
Recompile ==
  /\ thrown = NoError
  /\ pos > Len(service.stateMachines)
  /\ run < MaxRuns
  /\ run' = run + 1
  /\ pos' = 1
  /\ UNCHANGED <<service, template, thrown, emitted>>

Next == RejectMalformed \/ RejectInvalid \/ CompileStateMachine \/ Recompile

Spec == Init /\ [][Next]_vars

----------------------------------------------------------------------------
(* Vocabulary of the properties *)

Compilations == {emitted[i] : i \in 1..Len(emitted)}

ObjectCompilations == {e \in Compilations : e.input.definition.t = "map"}

StringCompilations == {e \in Compilations : e.input.definition.t = "str"}

DefinitionStringOf(e) == e.compiled.resource.Properties.DefinitionString

TextOf(DefinitionString) ==
  IF DefinitionString.t = "Fn::Sub" THEN DefinitionString.text ELSE DefinitionString.s

ParamsOf(DefinitionString) ==
  IF DefinitionString.t = "Fn::Sub" THEN DefinitionString.params ELSE <<>>

KeysOf(params) == {params[i].k : i \in 1..Len(params)}

(* does some node of the tree match the intrinsic-reference predicate *)
RECURSIVE HasIntrinsic(_)
HasIntrinsic(node) ==
  \/ isIntrinsic(node)
  \/ \E i \in 1..Len(Values(node)) : HasIntrinsic(Values(node)[i])

(* the names between "${" and the next "}" in a text *)
MarkerAt(text, i) ==
  IF /\ text[i] = "$"
     /\ i + 1 <= Len(text)
     /\ text[i + 1] = "{"
     /\ \E j \in (i + 2)..Len(text) : text[j] = "}"
    THEN LET close == CHOOSE j \in (i + 2)..Len(text) :
                        /\ text[j] = "}"
                        /\ \A h \in (i + 2)..(j - 1) : text[h] # "}"
         IN {SubSeq(text, i + 2, close - 1)}
  ELSE {}

MarkersIn(text) == UNION {MarkerAt(text, i) : i \in 1..Len(text)}

IsPrefix(s, u) == Len(s) <= Len(u) /\ SubSeq(u, 1, Len(s)) = s

----------------------------------------------------------------------------
(* C1: once getIntrinsicFunctions has been drained on an object            *)
(* definition, no node of the mutated definition is an intrinsic           *)
(* reference.                                                              *)
C1_NoLeakedReferences ==
  \A e \in ObjectCompilations : ~HasIntrinsic(e.compiled.definition)

(* C3: the names randomName returns within one compilation are pairwise    *)
(* distinct, so the parameter map has one entry for every yielded pair.    *)
C3_DistinctTokens ==
  \A e \in ObjectCompilations :
    /\ \A i, j \in 1..Len(e.names) : i # j => e.names[i] # e.names[j]
    /\ Len(ParamsOf(DefinitionStringOf(e))) = Len(e.compiled.functionMappings)

(* C5: a second run of the compilation on the same definition, the names   *)
(* of randomName pinned to the same sequence, produces the                 *)
(* DefinitionString of the first run.                                      *)
C5_OrderDeterminism ==
  \A e1, e2 \in Compilations :
    (/\ e1.name = e2.name
     /\ e1.run < e2.run
     /\ (IsPrefix(e1.names, e2.names) \/ IsPrefix(e2.names, e1.names)))
      => DefinitionStringOf(e2) = DefinitionStringOf(e1)

----------------------------------------------------------------------------
(* C2: for an object definition the names of the "${...}" markers in the   *)
(* text of the DefinitionString are exactly the keys of its parameter map  *)
(* (no marker at all when the DefinitionString is a plain string).         *)
C2_TokenParameterCorrespondence ==
  \A e \in ObjectCompilations :
    MarkersIn(TextOf(DefinitionStringOf(e))) = KeysOf(ParamsOf(DefinitionStringOf(e)))

(* C2: for an object definition every key of the parameter map is the     *)
(* name of a marker in the text and the keys are the names randomName      *)
(* returned; when the definition handed to the compilation has no "${" of  *)
(* its own, the names of the markers in the text are exactly the keys.     *)
C2_GeneratedMarkersCorrespond ==
  \A e \in ObjectCompilations :
    LET markers == MarkersIn(TextOf(DefinitionStringOf(e)))
        keys == KeysOf(ParamsOf(DefinitionStringOf(e)))
        written == Stringify(e.input.definition, 0)
    IN /\ keys = {e.names[i] : i \in 1..Len(e.names)}
       /\ keys \subseteq markers
       /\ (\A i \in 1..(Len(written) - 1) : ~(written[i] = "$" /\ written[i + 1] = "{"))
            => markers = keys

C2_Witness ==
  \E e \in ObjectCompilations :
    /\ DefinitionStringOf(e).t = "Fn::Sub"
    /\ Len(e.names) = 2
    /\ MarkersIn(TextOf(DefinitionStringOf(e))) = KeysOf(ParamsOf(DefinitionStringOf(e)))

----------------------------------------------------------------------------
(* C4: the state machines are compiled in declaration order; a rejected    *)
(* one stops the call with an error that names it, nothing of it or of a   *)
(* later one is merged into the template, and everything before it is.     *)
C4_FailFastInOrder ==
  LET thisRun == SelectSeq(emitted, LAMBDA e : e.run = run)
      Merged(j) ==
        /\ getStateMachineLogicalId(getAllStateMachines[j]) \in DOMAIN template.Resources
        /\ getStateMachineOutputLogicalId(getAllStateMachines[j]) \in DOMAIN template.Outputs
      Untouched(j) ==
        /\ getStateMachineLogicalId(getAllStateMachines[j]) \notin DOMAIN template.Resources
        /\ getStateMachineOutputLogicalId(getAllStateMachines[j]) \notin DOMAIN template.Outputs
        /\ \A e \in Compilations : e.name # getAllStateMachines[j]
  IN /\ [i \in 1..Len(thisRun) |-> thisRun[i].name] = SubSeq(getAllStateMachines, 1, pos - 1)
     /\ \A j \in 1..(pos - 1) : Merged(j)
     /\ \A e \in Compilations :
          /\ e.input.joi = "ok"
          /\ (service.validate /\ Truthy(e.input.definition)) => e.input.asl = "valid"
     /\ thrown.t = "error" =>
          /\ pos <= Len(service.stateMachines)
          /\ thrown.name = getAllStateMachines[pos]
          /\ \/ thrown.kind = "malformed" /\ getStateMachine(pos).joi = "error"
             \/ /\ thrown.kind = "invalid"
                /\ service.validate
                /\ getStateMachine(pos).asl = "invalid"
          /\ \A j \in pos..Len(service.stateMachines) : Untouched(j)

C4_Witness ==
  /\ thrown.t = "error"
  /\ pos > 1
  /\ emitted # <<>>

----------------------------------------------------------------------------
(* C6: a string definition draws no name, yields no Fn::Sub, and its       *)
(* DefinitionString is the string without its newline and carriage return  *)
(* characters.                                                             *)
WithoutNewlines(s) == SelectSeq(s, LAMBDA c : c \notin {LF, CR})

C6_LiteralPassthrough ==
  \A e \in StringCompilations :
    /\ e.names = <<>>
    /\ DefinitionStringOf(e) = Str(WithoutNewlines(e.input.definition.s))

(* the JSON literal of s without its quotes, read off s one character at a *)
(* time: a newline or carriage return leaves nothing, a quote is escaped,  *)
(* a backslash is doubled unless the letter n or r follows it, in which    *)
(* case the backslash stays single and the letter is dropped               *)
RECURSIVE StrippedLiteral(_)
StrippedLiteral(s) ==
  IF s = <<>> THEN <<>>
  ELSE IF s[1] \in {LF, CR} THEN StrippedLiteral(Tail(s))
  ELSE IF s[1] = QT THEN <<BS, QT>> \o StrippedLiteral(Tail(s))
  ELSE IF s[1] = BS
    THEN IF Len(s) >= 2 /\ s[2] \in {"n", "r"}
           THEN <<BS>> \o StrippedLiteral(SubSeq(s, 3, Len(s)))
         ELSE <<BS, BS>> \o StrippedLiteral(Tail(s))
  ELSE <<s[1]>> \o StrippedLiteral(Tail(s))

(* C6: a string definition draws no name, yields no pair and no Fn::Sub,   *)
(* and its DefinitionString is the JSON literal of the string, between     *)
(* double quotes, from which every backslash-n and backslash-r has been    *)
(* removed.                                                                *)
C6_QuotedLiteralPassthrough ==
  \A e \in StringCompilations :
    /\ e.names = <<>>
    /\ e.compiled.functionMappings = <<>>
    /\ e.compiled.pinCalls = 0
    /\ DefinitionStringOf(e) =
         Str(<<QT>> \o StrippedLiteral(e.input.definition.s) \o <<QT>>)

C6_Witness ==
  \E e \in StringCompilations :
    /\ \E i \in 1..Len(e.input.definition.s) : e.input.definition.s[i] \in {LF, CR}
    /\ \E i \in 1..Len(e.input.definition.s) : e.input.definition.s[i] \notin {LF, CR}

----------------------------------------------------------------------------
(* C7: DependsOn is IamRoleStateMachineExecution exactly when no role is   *)
(* given (RoleArn is then the Arn of that role, otherwise the role given), *)
(* followed by the declared dependsOn, one value or a list in its order,   *)
(* duplicates kept; nothing of another state machine is in it.             *)
DeclaredDependsOn(stateMachineObj) ==
  IF stateMachineObj.dependsOn = Undefined THEN <<>>
  ELSE IF stateMachineObj.dependsOn.t = "arr" THEN stateMachineObj.dependsOn.a
  ELSE <<stateMachineObj.dependsOn.id>>

C7_DependencyList ==
  \A e \in Compilations :
    LET resource == e.compiled.resource
        merged == template.Resources[getStateMachineLogicalId(e.name)]
        expected ==
          IF e.input.role = Undefined
            THEN <<"IamRoleStateMachineExecution">> \o DeclaredDependsOn(e.input)
          ELSE DeclaredDependsOn(e.input)
    IN /\ resource.DependsOn = expected
       /\ merged.DependsOn = expected
       /\ IF e.input.role = Undefined
            THEN resource.Properties.RoleArn
                   = [GetAtt |-> <<"IamRoleStateMachineExecution", "Arn">>]
          ELSE resource.Properties.RoleArn = e.input.role
       /\ merged.Properties.RoleArn = resource.Properties.RoleArn

C7_Witness ==
  \E e1, e2 \in Compilations :
    /\ e1.name # e2.name
    /\ e1.input.role = Undefined
    /\ e1.input.dependsOn = Arr(<<"X", "X">>)
    /\ e2.input.role # Undefined
    /\ e2.input.dependsOn = Id("X")

----------------------------------------------------------------------------
(* C8: Tags is the provider's tags followed by the state machine's tags,   *)
(* each as Key and Value in the order of its mapping, the Value as a       *)
(* string; a key of both is there twice; no tags, no entries.              *)
RECURSIVE NumberOf(_)
NumberOf(digits) ==
  LET d == [c \in {"0", "1", "2", "3", "4", "5", "6", "7", "8", "9"} |->
              CHOOSE k \in 0..9 :
                <<"0", "1", "2", "3", "4", "5", "6", "7", "8", "9">>[k + 1] = c]
  IN IF Len(digits) = 1 THEN d[digits[1]]
     ELSE 10 * NumberOf(SubSeq(digits, 1, Len(digits) - 1)) + d[digits[Len(digits)]]

IsTagOf(tag, entry) ==
  /\ tag.Key = entry.k
  /\ IF entry.v.t = "num"
       THEN /\ tag.Value # <<>>
            /\ \A i \in 1..Len(tag.Value) :
                 tag.Value[i] \in {"0", "1", "2", "3", "4", "5", "6", "7", "8", "9"}
            /\ (Len(tag.Value) > 1 => tag.Value[1] # "0")
            /\ NumberOf(tag.Value) = entry.v.n
     ELSE tag.Value = entry.v.s

EntriesOf(tags) == IF tags = Undefined THEN <<>> ELSE tags.m

C8_TagSequence ==
  \A e \in Compilations :
    LET Tags == e.compiled.resource.Properties.Tags
        entries == EntriesOf(e.providerTags) \o EntriesOf(e.input.tags)
    IN /\ Len(Tags) = Len(entries)
       /\ \A i \in 1..Len(entries) : IsTagOf(Tags[i], entries[i])
       /\ template.Resources[getStateMachineLogicalId(e.name)].Properties.Tags = Tags

C8_Witness ==
  \E e \in Compilations :
    LET Tags == e.compiled.resource.Properties.Tags
    IN /\ EntriesOf(e.providerTags) # <<>>
       /\ Len(EntriesOf(e.input.tags)) = 2
       /\ \E i, j \in 1..Len(Tags) : i < j /\ Tags[i].Key = Tags[j].Key

----------------------------------------------------------------------------
(* C9: without useExactVersion the assembled DefinitionString is kept as   *)
(* it is; with it, an Fn::Sub keeps its text and its keys in their order   *)
(* and every value becomes convertToFunctionVersion of it; a plain string  *)
(* is kept and convertToFunctionVersion is not called.                     *)
C9_VersionPinning ==
  \A e \in Compilations :
    LET before == e.compiled.assembled
        after == DefinitionStringOf(e)
    IN IF e.input.useExactVersion = TRUE /\ before.t = "Fn::Sub"
         THEN /\ after.t = "Fn::Sub"
              /\ after.text = before.text
              /\ Len(after.params) = Len(before.params)
              /\ \A i \in 1..Len(before.params) :
                   /\ after.params[i].k = before.params[i].k
                   /\ after.params[i].v = convertToFunctionVersion(before.params[i].v)
              /\ e.compiled.pinCalls = Len(before.params)
       ELSE after = before /\ e.compiled.pinCalls = 0

C9_Witness ==
  \E e \in Compilations :
    /\ e.input.useExactVersion = TRUE
    /\ e.compiled.assembled.t = "Fn::Sub"
    /\ Len(e.compiled.assembled.params) = 2

----------------------------------------------------------------------------
(* C10: a replaced intrinsic reference yields one pair, whose reference is *)
(* the mapping as it was in the definition; nothing inside it is replaced, *)
(* and the pairs are, in order, the replaced nodes of the definition.      *)

(* the nodes of the definition before that are marker strings after, with  *)
(* the marker, in the order of the traversal                               *)
RECURSIVE Replaced(_, _)
RECURSIVE ReplacedFrom(_, _, _)
ReplacedFrom(before, after, i) ==
  IF i > Len(before) THEN <<>>
  ELSE Replaced(before[i], after[i]) \o ReplacedFrom(before, after, i + 1)

Replaced(before, after) ==
  IF isIntrinsic(before) /\ after.t = "str" THEN << <<before, after.s>> >>
  ELSE IF before.t = after.t /\ Len(Values(before)) = Len(Values(after))
    THEN ReplacedFrom(Values(before), Values(after), 1)
  ELSE <<>>

(* the definition after is the definition before but for the replaced nodes *)
RECURSIVE SameButReplaced(_, _)
SameButReplaced(before, after) ==
  IF isIntrinsic(before) /\ after.t = "str" THEN TRUE
  ELSE IF before.t \in {"arr", "map"}
    THEN /\ after = WithValues(before, Values(after))
         /\ Len(Values(after)) = Len(Values(before))
         /\ \A i \in 1..Len(Values(before)) :
              SameButReplaced(Values(before)[i], Values(after)[i])
  ELSE after = before

C10_AtomicReplacement ==
  \A e \in ObjectCompilations :
    LET pairs == e.compiled.functionMappings
        replaced == Replaced(e.input.definition, e.compiled.definition)
    IN /\ Len(pairs) = Len(replaced)
       /\ Len(pairs) = Len(e.names)
       /\ SameButReplaced(e.input.definition, e.compiled.definition)
       /\ \A i \in 1..Len(pairs) :
            /\ pairs[i][1] = e.names[i]
            /\ isIntrinsic(pairs[i][2])
            /\ pairs[i][2] = replaced[i][1]
            /\ replaced[i][2] = Marker(pairs[i][1])

C10_Witness ==
  \E e \in ObjectCompilations :
    \E i \in 1..Len(e.compiled.functionMappings) :
      LET reference == e.compiled.functionMappings[i][2]
      IN \E j \in 1..Len(Values(reference)) : HasIntrinsic(Values(reference)[j])

====
